---- MODULE Spec2Model ----
(***************************************************************************)
(* Carbon footprint calculator (src/main.py): a six-step Streamlit wizard. *)
(* Every user interaction re-runs the script top to bottom; one script run *)
(* is one action of this model.  The session state (current_step,          *)
(* user_responses, food_order_analysis, final_result) survives between     *)
(* runs; the widgets drawn by a run stay on screen until the next run.     *)
(***************************************************************************)
EXTENDS Integers, Sequences, FiniteSets, TLC

VARIABLES
  session_state,  \* st.session_state: present keys |-> values
  rerun_pending,  \* st.rerun() was called: the script runs again at once
  rendered,       \* step whose block the last run drew (0: nothing drawn yet)
  asked,          \* <<category, question>> of the widgets drawn by the last run
  shown,          \* other elements drawn by the last run (steps 5 and 6)
  button,         \* what triggered the last run: a button, "edit" (a widget value),
                  \* "upload" (the uploader's file) or "none"
  wrote,          \* <<category, question>> pairs store_response wrote in the last run
  gemma_calls,    \* calls of analyze_with_gemma made by the last run
  invoice_calls,  \* calls of analyze_food_invoice made by the last run
  payload,        \* argument of the analyze_with_gemma call of the last run
  response,       \* index of the HTTP outcome of the last run's call (0: none)
  cycle_calls,    \* analyze_with_gemma calls since the last Recalculate / Start Over
  written,        \* latest value store_response wrote per pair since the last reset
  uploaded_file,  \* index in Files of the file held by the uploader widget (0: none)
  failed,         \* TRUE iff the last run ended in an uncaught exception
  defaulted,      \* pairs whose stored value the last run did not find among the options
  edits,          \* widget values the "answers" user changed since the last reset
  user,           \* the kind of session explored (see Users), fixed from the start
  call,           \* the last direct call of a helper function: name, arguments, value
  disk,           \* bytes of the file "uploaded_invoice.png" in the working directory
  sessions,       \* per concurrent session: position in the step-5 block, upload, bytes sent
  computed_from   \* the answers passed to the analyze_with_gemma call that gave
                  \* final_result, followed in the sessions of the "returning" user

vars == <<session_state, rerun_pending, rendered, asked, shown, button,
          wrote, gemma_calls, invoice_calls, payload, response, cycle_calls, written,
          uploaded_file, failed, defaulted, edits, user, call, disk, sessions,
          computed_from>>

(***************************************************************************)
(* Bounds of the model.                                                    *)
(***************************************************************************)
\* the "answers" user changes at most this many widget values between two resets
MaxEdits == 3
\* a cycle is followed up to this many analyze_with_gemma calls
MaxCalls == 2
\* the HTTP outcomes 1..MaxOutcome of Outcomes occur
MaxOutcome == 3
\* next_step is called directly while current_step is below this value
MaxStep == 7

\* A text (str) is a sequence of tokens, so that formatted parts stay visible.
\* Python's None is a value that no text equals.
None == <<"<None>">>
\* `if value:` on a text or None
Truthy(t) == t # None /\ t # <<>>
\* the empty dict / empty mapping
EmptyDict == [x \in {} |-> x]

(***************************************************************************)
(* Answer store helpers.                                                   *)
(***************************************************************************)
get_response(ur, category, question, default) ==
  IF category \in DOMAIN ur
    THEN IF question \in DOMAIN ur[category]
           THEN ur[category][question]
           ELSE default
    ELSE default

\* does the store hold a value for the pair
Has(ur, category, question) ==
  category \in DOMAIN ur /\ question \in DOMAIN ur[category]

\* the plausible slip: the new category replaces the store instead of joining it
init_category_alone(ur, category) ==
  IF category \notin DOMAIN ur
    THEN [c \in {category} |-> EmptyDict]
    ELSE ur

\* `if category not in user_responses: user_responses[category] = {}`
init_category(ur, category) ==
  IF category \notin DOMAIN ur
    THEN [c \in DOMAIN ur \cup {category} |->
            IF c = category THEN EmptyDict ELSE ur[c]]
    ELSE ur

\* the plausible slip: the question mapping is replaced instead of updated
store_response_replacing(ur, category, question, resp) ==
  [c \in DOMAIN ur \cup {category} |->
     IF c = category THEN (question :> resp) ELSE ur[c]]

store_response(ur, category, question, resp) ==
  LET ur1 == init_category(ur, category)
  IN  [c \in DOMAIN ur1 |->
         IF c = category
           THEN [q \in DOMAIN ur1[c] \cup {question} |->
                   IF q = question THEN resp ELSE ur1[c][q]]
           ELSE ur1[c]]

\* all <<category, question>> pairs of a store
Pairs(ur) == UNION {{<<c, q>> : q \in DOMAIN ur[c]} : c \in DOMAIN ur}

(***************************************************************************)
(* Widgets.  A run carries at most one new widget value (Streamlit re-runs *)
(* the script on every widget change): `in` names the widget and the index *)
(* of the value picked among Choices; every other widget returns the value *)
(* it was created with (its `value=` / `index=` argument).                 *)
(***************************************************************************)
NoInput == [q |-> <<"", "">>, i |-> 0]

\* the values the modelled user may enter, per widget
Choices(c, q) ==
  CASE <<c, q>> = <<"transportation", "primary_mode">> -> <<"Car", "Bus", "Bicycle", "Motorcycle">>
    [] <<c, q>> = <<"transportation", "fuel_type">> -> <<"Petrol/Gasoline", "Diesel">>
    [] <<c, q>> = <<"transportation", "distance_km">> -> <<0, 5>>
    [] <<c, q>> = <<"diet", "diet_type">> ->
         <<"Omnivore (regular meat consumption)", "Vegan (no animal products)">>
    [] <<c, q>> = <<"food", "had_breakfast">> -> <<FALSE, TRUE>>
    [] <<c, q>> = <<"food", "had_lunch">> -> <<FALSE, TRUE>>
    [] <<c, q>> = <<"food", "lunch_source">> -> <<"Home-cooked", "Delivery/Takeout">>
    [] <<c, q>> = <<"food", "has_lunch_invoice">> -> <<FALSE, TRUE>>
    [] <<c, q>> = <<"food", "lunch_description">> -> <<"", "dal and rice">>
    [] <<c, q>> = <<"food", "had_dinner">> -> <<FALSE, TRUE>>
    [] <<c, q>> = <<"food", "dinner_source">> -> <<"Home-cooked", "Delivery/Takeout">>
    [] <<c, q>> = <<"food", "has_dinner_invoice">> -> <<FALSE, TRUE>>
    [] <<c, q>> = <<"energy", "electricity_sources">> -> <<{}, {"Grid electricity"}>>
    [] <<c, q>> = <<"water", "did_laundry">> -> <<FALSE, TRUE>>
    [] <<c, q>> = <<"consumption", "purchased_items">> -> <<{}, {"Clothing"}, {"Clothing", "None"}>>
    [] <<c, q>> = <<"consumption", "item_packaging">> ->
         <<"Standard packaging", "Excessive packaging">>
    [] <<c, q>> = <<"consumption", "ordered_online">> -> <<FALSE, TRUE>>
    [] OTHER -> <<>>

\* what a widget created with `default` returns in this run
widget(in, c, q, default) ==
  IF in.q = <<c, q>> THEN Choices(c, q)[in.i] ELSE default

Range(seq) == {seq[i] : i \in 1..Len(seq)}

\* options.index(value) with `except ValueError: fallback` (0-based)
index_of(options, value, fallback) ==
  IF \E i \in 1..Len(options) : options[i] = value
    THEN (CHOOSE i \in 1..Len(options) :
            options[i] = value /\ \A j \in 1..(i - 1) : options[j] # value) - 1
    ELSE fallback

(***************************************************************************)
(* One render in progress: the store, what was drawn and written so far,   *)
(* and whether the script raised.                                          *)
(***************************************************************************)
StartRender(ur, w) ==
  [ur |-> ur, asked |-> {}, wrote |-> {}, written |-> w, failed |-> FALSE,
   defaulted |-> {}]

\* a widget was drawn for <<c, q>> and its value v passed to store_response
Put(r, c, q, v) ==
  IF r.failed THEN r
  ELSE [r EXCEPT !.ur = store_response(r.ur, c, q, v),
                 !.asked = @ \cup {<<c, q>>},
                 !.wrote = @ \cup {<<c, q>>},
                 !.written = [p \in DOMAIN @ \cup {<<c, q>>} |->
                                IF p = <<c, q>> THEN v ELSE @[p]]]

\* the plausible slip: the widget is created with the stock default, not the stored value
plain_unfilled(r, in, c, q, default) ==
  Put(r, c, q, widget(in, c, q, default))

\* st.checkbox / st.text_area / st.text_input / st.slider / st.number_input
\* with value=get_response(c, q, default), then store_response
plain(r, in, c, q, default) ==
  Put(r, c, q, widget(in, c, q, get_response(r.ur, c, q, default)))

\* the plausible slip: options.index(value) without its try/except, so that a stored
\* value missing from the options ends the run with a ValueError
choice_unguarded(r, in, c, q, options, default, fallback) ==
  LET stored == get_response(r.ur, c, q, default)
  IN  IF stored \in Range(options)
        THEN Put(r, c, q, widget(in, c, q, options[index_of(options, stored, fallback) + 1]))
        ELSE [r EXCEPT !.failed = TRUE]

\* st.selectbox / st.radio / st.select_slider with the default index looked up
\* in options, then store_response
choice(r, in, c, q, options, default, fallback) ==
  LET stored == get_response(r.ur, c, q, default)
      idx == index_of(options, stored, fallback)
      r1 == IF r.failed \/ stored \in Range(options) THEN r
            ELSE [r EXCEPT !.defaulted = @ \cup {<<c, q>>}]
  IN  Put(r1, c, q, widget(in, c, q, options[idx + 1]))

\* st.multiselect(options, default=get_response(c, q, [])): Streamlit raises
\* when a default is not among the options
multiselect(r, in, c, q, options) ==
  LET dflt == get_response(r.ur, c, q, {})
  IN  IF dflt \subseteq options
        THEN Put(r, c, q, widget(in, c, q, dflt))
        ELSE [r EXCEPT !.failed = TRUE]

\* the plausible slip: the category is emptied on every render of its step
Cat_emptying(r, category) ==
  [r EXCEPT !.ur = [c \in DOMAIN @ \cup {category} |->
                      IF c = category THEN EmptyDict ELSE @[c]]]

\* `if category not in user_responses: user_responses[category] = {}` of a step block
Cat(r, category) == [r EXCEPT !.ur = init_category(@, category)]

\* F applied to the value of x
Then(x, F(_)) == CHOOSE y \in {F(v) : v \in {x}} : TRUE

\* the statements 1..n of a block, Stage(k, r) being statement k run on render r
Statements(Stage(_, _), n, r0) ==
  LET after[k \in 0..n] ==
        IF k = 0 THEN r0 ELSE Then(after[k - 1], LAMBDA r : Stage(k, r))
  IN  after[n]

\* the value a statement of this run has just stored, as the local variable holds it
Local(r, c, q) == r.ur[c][q]

(***************************************************************************)
(* Step 1: Transportation.                                                 *)
(***************************************************************************)
transport_options ==
  <<"Car", "Bus", "Train", "Bicycle", "Walking", "Motorcycle", "Airplane", "Other">>
\* the plausible slip: an option is relabelled and the stock default is not
fuel_options_relabelled == <<"Petrol", "Diesel", "Electric", "Hybrid", "CNG/LPG">>

fuel_options == <<"Petrol/Gasoline", "Diesel", "Electric", "Hybrid", "CNG/LPG">>

AsksFuelType(transport_mode) == transport_mode \in {"Car", "Motorcycle"}
AsksDuration(transport_mode) == transport_mode \in {"Bus", "Train"}
\* the plausible slip: the passenger question reuses the test of the fuel question
AsksPassengers_as_fuel(transport_mode) == transport_mode \in {"Car", "Motorcycle"}
AsksPassengers(transport_mode) == transport_mode = "Car"

TransportationStatement(k, r, in) ==
  CASE k = 1 -> Cat(r, "transportation")
    [] k = 2 -> choice(r, in, "transportation", "primary_mode", transport_options, "Car", 0)
    [] k = 3 -> IF AsksFuelType(Local(r, "transportation", "primary_mode"))
                  THEN choice(r, in, "transportation", "fuel_type", fuel_options,
                              "Petrol/Gasoline", 0)
                  ELSE r
    [] k = 4 -> plain(r, in, "transportation", "distance_km", 0)
    [] k = 5 -> IF AsksDuration(Local(r, "transportation", "primary_mode"))
                  THEN plain(r, in, "transportation", "duration_minutes", 0)
                  ELSE r
    [] k = 6 -> IF AsksPassengers(Local(r, "transportation", "primary_mode"))
                  THEN plain(r, in, "transportation", "passengers", 1)
                  ELSE r

Transportation(r0, in) ==
  Statements(LAMBDA k, r : TransportationStatement(k, r, in), 6, r0)

(***************************************************************************)
(* Step 2: Food & Diet.                                                    *)
(***************************************************************************)
diet_options ==
  <<"Omnivore (regular meat consumption)", "Flexitarian (occasional meat)",
    "Pescatarian (fish but no meat)", "Vegetarian (no meat or fish)",
    "Vegan (no animal products)">>
lunch_source_options ==
  <<"Home-cooked", "Restaurant", "Office/School Cafeteria", "Delivery/Takeout", "Other">>
dinner_source_options == <<"Home-cooked", "Restaurant", "Delivery/Takeout", "Other">>

\* `if had_breakfast:` guards the three breakfast questions
BreakfastStatement(k, r, in) ==
  CASE k = 1 -> plain(r, in, "food", "had_breakfast", FALSE)
    [] k = 2 -> IF Local(r, "food", "had_breakfast") = TRUE
                  THEN plain(r, in, "food", "breakfast_description", "") ELSE r
    [] k = 3 -> IF Local(r, "food", "had_breakfast") = TRUE
                  THEN plain(r, in, "food", "breakfast_dairy_level", 0) ELSE r
    [] k = 4 -> IF Local(r, "food", "had_breakfast") = TRUE
                  THEN plain(r, in, "food", "breakfast_meat_level", 0) ELSE r

\* the source question is nested in `if had_*:`
AsksSource(r, had) == Local(r, "food", had) = TRUE

\* the invoice question is nested in `if had_*:` and `if *_source == "Delivery/Takeout":`
AsksInvoice(r, had, source) ==
  AsksSource(r, had) /\ Local(r, "food", source) = "Delivery/Takeout"

\* the plausible slip: description and meat level asked for every meal eaten
AsksMealDetails_whenever_eaten(r, had, source, invoice) == AsksSource(r, had)

\* description and meat level: the else branch of `if has_invoice:` under
\* Delivery/Takeout, and the else branch of the source test
AsksMealDetails(r, had, source, invoice) ==
  /\ AsksSource(r, had)
  /\ IF Local(r, "food", source) = "Delivery/Takeout"
       THEN Local(r, "food", invoice) # TRUE
       ELSE TRUE

\* lunch and dinner have one shape
MealStatement(k, r, in, had, source, source_options, invoice, desc, meat) ==
  CASE k = 1 -> plain(r, in, "food", had, FALSE)
    [] k = 2 -> IF AsksSource(r, had)
                  THEN choice(r, in, "food", source, source_options, "Home-cooked", 0)
                  ELSE r
    [] k = 3 -> IF AsksInvoice(r, had, source)
                  THEN plain(r, in, "food", invoice, FALSE) ELSE r
    [] k = 4 -> IF AsksMealDetails(r, had, source, invoice)
                  THEN plain(r, in, "food", desc, "") ELSE r
    [] k = 5 -> IF AsksMealDetails(r, had, source, invoice)
                  THEN plain(r, in, "food", meat, 0) ELSE r

Breakfast(r0, in) == Statements(LAMBDA k, r : BreakfastStatement(k, r, in), 4, r0)

Lunch(r0, in) ==
  Statements(LAMBDA k, r : MealStatement(k, r, in, "had_lunch", "lunch_source",
                                         lunch_source_options, "has_lunch_invoice",
                                         "lunch_description", "lunch_meat_level"),
             5, r0)

Dinner(r0, in) ==
  Statements(LAMBDA k, r : MealStatement(k, r, in, "had_dinner", "dinner_source",
                                         dinner_source_options, "has_dinner_invoice",
                                         "dinner_description", "dinner_meat_level"),
             5, r0)

FoodAndDietStatement(k, r, in) ==
  CASE k = 1 -> Cat(Cat(r, "food"), "diet")
    [] k = 2 -> choice(r, in, "diet", "diet_type", diet_options,
                       "Omnivore (regular meat consumption)", 0)
    [] k = 3 -> Breakfast(r, in)
    [] k = 4 -> Lunch(r, in)
    [] k = 5 -> Dinner(r, in)
    [] k = 6 -> plain(r, in, "food", "snacks_description", "")
    [] k = 7 -> plain(r, in, "food", "food_waste_level", 0)

FoodAndDiet(r0, in) == Statements(LAMBDA k, r : FoodAndDietStatement(k, r, in), 7, r0)

(***************************************************************************)
(* Step 3: Home Energy.                                                    *)
(***************************************************************************)
home_type_options == <<"Apartment", "Small house", "Medium house", "Large house", "Other">>
electricity_options ==
  {"Grid electricity", "Solar panels", "Wind power", "Other renewable", "Don't know"}
laundry_temp_options == <<"Cold", "Warm", "Hot">>

HomeEnergyStatement(k, r, in) ==
  CASE k = 1 -> Cat(Cat(Cat(r, "home"), "energy"), "water")
    [] k = 2 -> choice(r, in, "home", "home_type", home_type_options, "Apartment", 0)
    [] k = 3 -> plain(r, in, "home", "household_size", 1)
    [] k = 4 -> multiselect(r, in, "energy", "electricity_sources", electricity_options)
    [] k = 5 -> IF "Grid electricity" \in get_response(r.ur, "energy", "electricity_sources", {})
                  THEN plain(r, in, "energy", "electricity_provider", "") ELSE r
    [] k = 6 -> plain(r, in, "energy", "ac_hours", 0)
    [] k = 7 -> plain(r, in, "energy", "heating_hours", 0)
    [] k = 8 -> plain(r, in, "water", "shower_minutes", 0)
    [] k = 9 -> plain(r, in, "water", "did_laundry", FALSE)
    [] k = 10 -> IF Local(r, "water", "did_laundry") = TRUE
                   THEN plain(r, in, "water", "laundry_loads", 1) ELSE r
    [] k = 11 -> IF Local(r, "water", "did_laundry") = TRUE
                   THEN choice(r, in, "water", "laundry_temperature",
                               laundry_temp_options, "Cold", 0)
                   ELSE r
    [] k = 12 -> plain(r, in, "water", "used_dishwasher", FALSE)

HomeEnergy(r0, in) == Statements(LAMBDA k, r : HomeEnergyStatement(k, r, in), 12, r0)

(***************************************************************************)
(* Step 4: Consumer Goods.                                                 *)
(***************************************************************************)
purchased_options ==
  {"Clothing", "Electronics", "Furniture", "Books/Media", "Toys", "Household items", "None"}
items_new_options == <<"All new", "Mixture of new and second-hand", "All second-hand">>
packaging_options ==
  <<"Minimal/eco-friendly packaging", "Standard packaging", "Excessive packaging">>
delivery_options == <<"Standard", "Express/Next day", "Same day">>

\* the plausible slip: only the emptiness of the selection is tested
AsksItemDetails_if_any(purchased_items) == purchased_items # {}

\* `if "None" not in purchased_items and purchased_items:`
AsksItemDetails(purchased_items) ==
  "None" \notin purchased_items /\ purchased_items # {}

ConsumerGoodsStatement(k, r, in) ==
  CASE k = 1 -> Cat(Cat(r, "consumption"), "waste")
    [] k = 2 -> multiselect(r, in, "consumption", "purchased_items", purchased_options)
    [] k = 3 -> IF AsksItemDetails(get_response(r.ur, "consumption", "purchased_items", {}))
                  THEN choice(r, in, "consumption", "items_new_or_used",
                              items_new_options, "All new", 0)
                  ELSE r
    [] k = 4 -> IF AsksItemDetails(get_response(r.ur, "consumption", "purchased_items", {}))
                  THEN choice(r, in, "consumption", "item_packaging", packaging_options,
                              "Standard packaging", 1)
                  ELSE r
    [] k = 5 -> plain(r, in, "consumption", "ordered_online", FALSE)
    [] k = 6 -> IF Local(r, "consumption", "ordered_online") = TRUE
                  THEN choice(r, in, "consumption", "delivery_option", delivery_options,
                              "Standard", 0)
                  ELSE r
    [] k = 7 -> plain(r, in, "waste", "recycling_percentage", 0)
    [] k = 8 -> plain(r, in, "waste", "does_compost", FALSE)
    [] k = 9 -> plain(r, in, "waste", "single_use_plastic_count", 0)

ConsumerGoods(r0, in) == Statements(LAMBDA k, r : ConsumerGoodsStatement(k, r, in), 9, r0)

\* the block of a question step
Block(step, r0, in) ==
  CASE step = 1 -> Transportation(r0, in)
    [] step = 2 -> FoodAndDiet(r0, in)
    [] step = 3 -> HomeEnergy(r0, in)
    [] step = 4 -> ConsumerGoods(r0, in)

(***************************************************************************)
(* The two analysis services.  The outcome of the HTTP call is an input:   *)
(* requests.post raises, or returns a status with a body; `json` is the    *)
(* parsed body, `text` the body as received and `dumped` its               *)
(* json.dumps(..., indent=2) form.                                         *)
(***************************************************************************)
Outcomes ==
  << [raised |-> FALSE, status |-> 200, is_json |-> TRUE,
      json |-> [choices |-> << [message |-> [content |-> <<"## Footprint: 9.8 kg CO2e">>]] >>],
      text |-> <<"{\"choices\":[{\"message\":{\"content\":...}}]}">>,
      dumped |-> <<"{\n  \"choices\": [ { \"message\": ... } ]\n}">>],
     [raised |-> FALSE, status |-> 500, is_json |-> FALSE,
      json |-> EmptyDict,
      text |-> <<"Internal Server Error">>,
      dumped |-> <<>>],
     [raised |-> FALSE, status |-> 200, is_json |-> TRUE,
      json |-> [choices |-> << [message |-> [content |-> None]] >>],
      text |-> <<"{\"choices\":[{\"message\":{\"content\":null}}]}">>,
      dumped |-> <<"{\n  \"choices\": [ { \"message\": { \"content\": null } } ]\n}">>],
     [raised |-> TRUE, error |-> <<"Read timed out. (read timeout=90)">>],
     [raised |-> FALSE, status |-> 200, is_json |-> FALSE,
      json |-> EmptyDict,
      text |-> <<"<html>Bad gateway</html>">>,
      dumped |-> <<>>] >>

\* str(response.status_code)
StatusText(status) ==
  CASE status = 200 -> "200"
    [] status = 429 -> "429"
    [] status = 500 -> "500"

\* the body of `if response.status_code == 200:`: the envelope shapes tried in turn
parse_success(resp) ==
  IF resp.is_json
    THEN LET response_json == resp.json
         IN  IF "choices" \in DOMAIN response_json /\ Len(response_json.choices) > 0
               THEN IF "message" \in DOMAIN response_json.choices[1]
                        /\ "content" \in DOMAIN response_json.choices[1].message
                      THEN response_json.choices[1].message.content
                      ELSE IF "text" \in DOMAIN response_json.choices[1]
                             THEN response_json.choices[1].text
                             ELSE resp.dumped
               ELSE IF "response" \in DOMAIN response_json THEN response_json.response
               ELSE IF "result" \in DOMAIN response_json THEN response_json.result
               ELSE IF "output" \in DOMAIN response_json THEN response_json.output
               ELSE IF "text" \in DOMAIN response_json THEN response_json.text
               ELSE resp.dumped
    ELSE resp.text

\* the plausible slip: a failed request yields an empty text instead of a message
parse_response_silent(resp) ==
  IF resp.status = 200 THEN parse_success(resp) ELSE <<>>

\* the `if response.status_code == 200: ... else: ...` part shared by both services
parse_response(resp) ==
  IF resp.status = 200
    THEN parse_success(resp)
    ELSE <<"Error ", StatusText(resp.status),
           ": The API request failed. Please try again later.">>

\* the request and its try/except; user_responses only feeds the prompt
analyze_with_gemma(user_responses, outcome) ==
  IF outcome.raised
    THEN <<"An error occurred: ">> \o outcome.error
    ELSE parse_response(outcome)

analyze_food_invoice(image_data, outcome) ==
  IF outcome.raised
    THEN <<"An error occurred: ">> \o outcome.error
    ELSE parse_response(outcome)

\* the uploaded files the modelled user has: kind and bytes
Files == <<[type |-> "image/png", bytes |-> <<137, 80>>],
           [type |-> "image/png", bytes |-> <<>>],
           [type |-> "application/pdf", bytes |-> <<37, 80>>]>>

\* base64 text of the bytes read back from the saved file
encode_image(bytes) == IF bytes = <<>> THEN <<>> ELSE <<"b64">> \o bytes

(***************************************************************************)
(* Session state.                                                          *)
(***************************************************************************)
Keys == {"current_step", "user_responses", "food_order_analysis", "final_result"}

\* the four `if key not in st.session_state:` initialisations at the top of a run
InitSessionState(ss) ==
  [k \in Keys |->
     IF k \in DOMAIN ss THEN ss[k]
     ELSE CASE k = "current_step" -> 1
            [] k = "user_responses" -> EmptyDict
            [] k = "food_order_analysis" -> None
            [] k = "final_result" -> None]

\* the plausible slip: the cursor is clamped one step too early
next_step_clamped(current_step) ==
  IF current_step < 5 THEN current_step + 1 ELSE current_step

next_step(current_step) == current_step + 1

\* the plausible slip: the decrement without its test
prev_step_unguarded(current_step) == current_step - 1

prev_step(current_step) ==
  IF current_step > 1 THEN current_step - 1 ELSE current_step

Buttons_next_everywhere(step) ==
  CASE step = 1 -> {"next"}
    [] step \in 2..5 -> {"prev", "next"}
    [] step = 6 -> {"recalculate", "prev", "next", "reset"}
    [] OTHER -> {}

\* the buttons each step's block draws unconditionally
Buttons(step) ==
  CASE step = 1 -> {"next"}
    [] step \in 2..5 -> {"prev", "next"}
    [] step = 6 -> {"recalculate", "prev", "reset"}
    [] OTHER -> {}

\* the plausible slip: Start Over resets the cursor and the two results by hand and
\* forgets the answers
start_over_keeping_answers(ss) ==
  [k \in {"user_responses"} \cap DOMAIN ss |-> ss[k]]

\* Start Over: `for key in list(st.session_state.keys()): del st.session_state[key]`
start_over(ss) == EmptyDict

(***************************************************************************)
(* Step 5: Food Invoice.  `pressed` is the button of this run, `file` the  *)
(* index of the uploaded file.                                             *)
(***************************************************************************)
\* the plausible slip: `and` for `or`
OffersUpload_both(ur) ==
  LET has_lunch_invoice == get_response(ur, "food", "has_lunch_invoice", FALSE)
      has_dinner_invoice == get_response(ur, "food", "has_dinner_invoice", FALSE)
  IN  has_lunch_invoice = TRUE /\ has_dinner_invoice = TRUE

OffersUpload(ur) ==
  LET has_lunch_invoice == get_response(ur, "food", "has_lunch_invoice", FALSE)
      has_dinner_invoice == get_response(ur, "food", "has_dinner_invoice", FALSE)
  IN  has_lunch_invoice = TRUE \/ has_dinner_invoice = TRUE

\* the plausible slip: the analysis is run whenever an image is on screen
analyze_requested_always(pressed) == TRUE

\* `if analyze_button:`
analyze_requested(pressed) == pressed = "analyze"

\* the plausible slip: the result of encode_image is passed on untested
encoding_succeeded_unchecked(base64_image) == TRUE

\* `if base64_image:`
encoding_succeeded(base64_image) == base64_image # <<>>

\* the plausible slip: the analysis is cached and displayed but not put in the store
store_analysis_skipped(r0, invoice_analysis) == r0

\* `store_response("food", "invoice_analysis", invoice_analysis)`: no widget is drawn
store_analysis(r0, invoice_analysis) ==
  [Put(r0, "food", "invoice_analysis", invoice_analysis) EXCEPT !.asked = r0.asked]

\* result: [r, shown, food_order_analysis, calls]
FoodInvoice(r0, food_order_analysis, file, pressed, outcome) ==
  IF OffersUpload(r0.ur)
    THEN IF file # 0
           THEN IF Files[file].type = "image/png"
                  THEN IF analyze_requested(pressed)
                         THEN LET base64_image == encode_image(Files[file].bytes)
                              IN  IF encoding_succeeded(base64_image)
                                    THEN LET invoice_analysis ==
                                               analyze_food_invoice(base64_image, outcome)
                                         IN  [r |-> store_analysis(r0, invoice_analysis),
                                              shown |-> {"upload", "image", "analyze",
                                                         "analysis"},
                                              food_order_analysis |-> invoice_analysis,
                                              calls |-> 1]
                                    ELSE [r |-> r0,
                                          shown |-> {"upload", "image", "analyze",
                                                     "encode_error"},
                                          food_order_analysis |-> food_order_analysis,
                                          calls |-> 0]
                         ELSE [r |-> r0, shown |-> {"upload", "image", "analyze"},
                               food_order_analysis |-> food_order_analysis, calls |-> 0]
                  ELSE [r |-> r0, shown |-> {"upload", "pdf_error"},
                        food_order_analysis |-> food_order_analysis, calls |-> 0]
           ELSE [r |-> r0, shown |-> {"upload"},
                 food_order_analysis |-> food_order_analysis, calls |-> 0]
    ELSE [r |-> r0, shown |-> {"nothing_to_upload"},
          food_order_analysis |-> food_order_analysis, calls |-> 0]

(***************************************************************************)
(* Step 6: Results.                                                        *)
(***************************************************************************)
\* the plausible slip: Recalculate also drops the cached invoice analysis
recalculate_both_results(ss) ==
  [ss EXCEPT !.final_result = None, !.food_order_analysis = None]

\* Recalculate: `st.session_state.final_result = None`
recalculate(ss) == [ss EXCEPT !.final_result = None]

\* the plausible slip: the value of the Recalculate button is never acted on
recalculate_requested_never(pressed) == FALSE

\* `if st.button("Recalculate", key="recalculate"):`
recalculate_requested(pressed) == pressed = "recalculate"

\* result: [ss, shown, calls, payload], ss being the session state the block leaves
Results(ss0, pressed, outcome) ==
  LET ss1 == IF recalculate_requested(pressed) THEN recalculate(ss0) ELSE ss0
      food_section == IF Truthy(ss1.food_order_analysis) THEN {"food_order"} ELSE {}
  IN  IF ss1.final_result = None
        THEN [ss |-> [ss1 EXCEPT !.final_result =
                                   analyze_with_gemma(ss1.user_responses, outcome)],
              shown |-> food_section \cup {"overall"},
              calls |-> 1,
              payload |-> ss1.user_responses]
        ELSE [ss |-> ss1,
              shown |-> food_section \cup {"overall"},
              calls |-> 0,
              payload |-> EmptyDict]

(***************************************************************************)
(* The sessions explored are of two kinds: one user changes any of the     *)
(* widgets that Choices lists and meets a service that answers well; the   *)
(* other changes only the lunch answers that lead to the invoice step and  *)
(* meets every outcome of the HTTP calls.                                  *)
(***************************************************************************)
Users == {"answers", "service"}

Editable(u) ==
  IF u = "answers"
    THEN {<<"transportation", "primary_mode">>, <<"transportation", "fuel_type">>,
          <<"transportation", "distance_km">>, <<"diet", "diet_type">>,
          <<"food", "had_breakfast">>, <<"food", "had_lunch">>, <<"food", "lunch_source">>,
          <<"food", "has_lunch_invoice">>, <<"food", "lunch_description">>,
          <<"food", "had_dinner">>, <<"food", "dinner_source">>,
          <<"food", "has_dinner_invoice">>, <<"energy", "electricity_sources">>,
          <<"water", "did_laundry">>, <<"consumption", "purchased_items">>,
          <<"consumption", "item_packaging">>, <<"consumption", "ordered_online">>}
    ELSE IF u = "returning"
    THEN {<<"transportation", "distance_km">>, <<"food", "had_lunch">>,
          <<"food", "lunch_source">>, <<"food", "has_lunch_invoice">>}
    ELSE {<<"food", "had_lunch">>, <<"food", "lunch_source">>,
          <<"food", "has_lunch_invoice">>}

OutcomesOf(u) == IF u \in {"answers", "returning"} THEN {1} ELSE 1..MaxOutcome

\* the users that meet a service answering well are held to MaxEdits
Counted(u) == u \in {"answers", "returning"}

\* the sessions in which computed_from is kept
FollowsResult(u) == u = "returning"

(***************************************************************************)
(* One script run.  `in` is the new widget value (or NoInput), `upload`    *)
(* the file newly put into the uploader (0 to remove it, NoUpload for no   *)
(* change), `pressed` the button that caused the run (or "none").  The     *)
(* outcome of the HTTP call, if the run makes one, is drawn inside.        *)
(***************************************************************************)
NoUpload == 0 - 1

Run(in, upload, pressed) ==
  LET ss == InitSessionState(session_state)
      step == ss.current_step
      \* the last run drew this step, so its widgets and buttons can be used
      on_screen == rendered = step /\ ~rerun_pending
      uploader == step = 5 /\ OffersUpload(ss.user_responses)
      file == IF ~uploader THEN 0
              ELSE IF upload # NoUpload THEN upload
              ELSE uploaded_file
      fresh == "user_responses" \notin DOMAIN session_state
      r0 == StartRender(ss.user_responses, IF fresh THEN EmptyDict ELSE written)
      Invoice(outcome) ==
        IF step = 5
          THEN FoodInvoice(r0, ss.food_order_analysis, file, pressed, outcome)
          ELSE [r |-> r0, shown |-> {},
                food_order_analysis |-> ss.food_order_analysis, calls |-> 0]
      Overall(outcome) ==
        IF step = 6
          THEN Results(ss, pressed, outcome)
          ELSE [ss |-> ss, shown |-> {}, calls |-> 0, payload |-> EmptyDict]
      \* whether this run makes an HTTP call does not depend on the call's outcome
      calls == Invoice(Outcomes[1]).calls + Overall(Outcomes[1]).calls
      cycle0 == IF pressed = "recalculate" \/ fresh THEN 0 ELSE cycle_calls
      edits0 == IF fresh THEN 0 ELSE edits
      trigger == IF in # NoInput THEN "edit"
                 ELSE IF upload # NoUpload THEN "upload"
                 ELSE pressed
  IN  /\ rerun_pending => trigger = "none"
      /\ in # NoInput =>
           /\ on_screen /\ upload = NoUpload /\ pressed = "none"
           /\ in.q \in asked \cap Editable(user)
           /\ in.i \in 1..Len(Choices(in.q[1], in.q[2]))
           /\ Choices(in.q[1], in.q[2])[in.i] # ss.user_responses[in.q[1]][in.q[2]]
           /\ Counted(user) => edits0 < MaxEdits
      /\ upload # NoUpload =>
           /\ on_screen /\ "upload" \in shown /\ pressed = "none"
           /\ upload \in 0..Len(Files) /\ upload # uploaded_file
      /\ pressed # "none" =>
           /\ on_screen
           /\ pressed \in Buttons(step) \/ (pressed = "analyze" /\ "analyze" \in shown)
      /\ cycle0 + Overall(Outcomes[1]).calls <= MaxCalls
      /\ \E oc \in (IF calls > 0 THEN OutcomesOf(user) ELSE {0}) :
         \E inv \in {Invoice(Outcomes[IF oc = 0 THEN 1 ELSE oc])},
            res \in {Overall(Outcomes[IF oc = 0 THEN 1 ELSE oc])} :
         \E r \in {CASE step \in 1..4 -> Block(step, r0, in)
                     [] step = 5 -> inv.r
                     [] OTHER -> [r0 EXCEPT !.ur = res.ss.user_responses]} :
         \E ss1 \in {[k \in Keys |->
                       CASE k = "current_step" ->
                              IF r.failed THEN res.ss.current_step
                              ELSE CASE pressed = "next" -> next_step(res.ss.current_step)
                                     [] pressed = "prev" -> prev_step(res.ss.current_step)
                                     [] OTHER -> res.ss.current_step
                         [] k = "user_responses" -> r.ur
                         [] k = "food_order_analysis" ->
                              IF step = 5 THEN inv.food_order_analysis
                              ELSE res.ss.food_order_analysis
                         [] k = "final_result" -> res.ss.final_result]} :
           /\ session_state' = IF pressed = "reset" THEN start_over(ss1) ELSE ss1
           /\ rerun_pending' = (pressed = "reset")
           /\ rendered' = step
           /\ asked' = r.asked
           /\ shown' = inv.shown \cup res.shown
           /\ button' = trigger
           /\ wrote' = r.wrote
           /\ gemma_calls' = res.calls
           /\ invoice_calls' = inv.calls
           /\ payload' = res.payload
           /\ response' = oc
           /\ cycle_calls' = IF pressed = "reset" THEN 0 ELSE cycle0 + res.calls
           /\ written' = IF pressed = "reset" THEN EmptyDict ELSE r.written
           /\ uploaded_file' = IF pressed = "reset" THEN 0 ELSE file
           /\ failed' = r.failed
           /\ defaulted' = r.defaulted
           /\ edits' = IF pressed = "reset" THEN 0
                       ELSE IF in # NoInput /\ Counted(user) THEN edits0 + 1
                       ELSE edits0
           /\ user' = user
           /\ computed_from' = CASE pressed = "reset" \/ ~FollowsResult(user) -> EmptyDict
                                 [] res.calls = 1 -> res.payload
                                 [] OTHER -> IF fresh THEN EmptyDict ELSE computed_from
           /\ UNCHANGED <<call, disk, sessions>>

\* no helper function has been called directly
NoCall == [fn |-> "none"]

\* the script runs with nothing new: st.rerun(), or an interaction with a widget
\* that this run no longer draws
Rerender == rendered \in 0..6 /\ Run(NoInput, NoUpload, "none")

\* the user changes the value of one widget on screen
Edit == \E q \in asked, i \in 1..4 : Run([q |-> q, i |-> i], NoUpload, "none")

\* the user puts a file into the uploader of step 5, or removes it
Upload == "upload" \in shown /\ \E file \in 0..Len(Files) : Run(NoInput, file, "none")

\* the user presses a button that is on screen
PressNext == "next" \in Buttons(rendered) /\ Run(NoInput, NoUpload, "next")
PressPrevious == "prev" \in Buttons(rendered) /\ Run(NoInput, NoUpload, "prev")
AnalyzeInvoice == "analyze" \in shown /\ Run(NoInput, NoUpload, "analyze")
Recalculate == "recalculate" \in Buttons(rendered) /\ Run(NoInput, NoUpload, "recalculate")
StartOver == "reset" \in Buttons(rendered) /\ Run(NoInput, NoUpload, "reset")

Init ==
  /\ session_state = EmptyDict
  /\ rerun_pending = FALSE
  /\ rendered = 0
  /\ asked = {}
  /\ shown = {}
  /\ button = "none"
  /\ wrote = {}
  /\ gemma_calls = 0
  /\ invoice_calls = 0
  /\ payload = EmptyDict
  /\ response = 0
  /\ cycle_calls = 0
  /\ written = EmptyDict
  /\ uploaded_file = 0
  /\ failed = FALSE
  /\ defaulted = {}
  /\ edits = 0
  /\ user \in Users
  /\ call = NoCall
  /\ disk = <<>>
  /\ sessions = EmptyDict
  /\ computed_from = EmptyDict

Next ==
  \/ Rerender
  \/ Edit
  \/ Upload
  \/ PressNext
  \/ PressPrevious
  \/ AnalyzeInvoice
  \/ Recalculate
  \/ StartOver

Spec == Init /\ [][Next]_vars

(***************************************************************************)
(* The session of a user who comes back to the results: they change the    *)
(* distance and the lunch answers, upload and analyse an invoice, before   *)
(* or after the footprint was calculated; the service answers well.        *)
(***************************************************************************)
InitReturning ==
  /\ session_state = EmptyDict
  /\ rerun_pending = FALSE
  /\ rendered = 0
  /\ asked = {}
  /\ shown = {}
  /\ button = "none"
  /\ wrote = {}
  /\ gemma_calls = 0
  /\ invoice_calls = 0
  /\ payload = EmptyDict
  /\ response = 0
  /\ cycle_calls = 0
  /\ written = EmptyDict
  /\ uploaded_file = 0
  /\ failed = FALSE
  /\ defaulted = {}
  /\ edits = 0
  /\ user = "returning"
  /\ call = NoCall
  /\ disk = <<>>
  /\ sessions = EmptyDict
  /\ computed_from = EmptyDict

SpecReturning == InitReturning /\ [][Next]_vars

(***************************************************************************)
(* Sessions carried across a change of the option lists.  Streamlit keeps  *)
(* the session state when the script is edited and re-run, so a stored     *)
(* answer may name an option that the lists no longer hold.                *)
(***************************************************************************)
\* the single-choice questions of steps 1-4 and their option lists
EnumQuestions ==
  {<<"transportation", "primary_mode">>, <<"transportation", "fuel_type">>,
   <<"diet", "diet_type">>, <<"food", "lunch_source">>, <<"food", "dinner_source">>,
   <<"home", "home_type">>, <<"water", "laundry_temperature">>,
   <<"consumption", "items_new_or_used">>, <<"consumption", "item_packaging">>,
   <<"consumption", "delivery_option">>}

OptionsOf(e) ==
  CASE e = <<"transportation", "primary_mode">> -> transport_options
    [] e = <<"transportation", "fuel_type">> -> fuel_options
    [] e = <<"diet", "diet_type">> -> diet_options
    [] e = <<"food", "lunch_source">> -> lunch_source_options
    [] e = <<"food", "dinner_source">> -> dinner_source_options
    [] e = <<"home", "home_type">> -> home_type_options
    [] e = <<"water", "laundry_temperature">> -> laundry_temp_options
    [] e = <<"consumption", "items_new_or_used">> -> items_new_options
    [] e = <<"consumption", "item_packaging">> -> packaging_options
    [] e = <<"consumption", "delivery_option">> -> delivery_options

\* the step whose block asks the question
StepOf(e) ==
  CASE e[1] = "transportation" -> 1
    [] e[1] \in {"diet", "food"} -> 2
    [] e[1] \in {"home", "water"} -> 3
    [] e[1] = "consumption" -> 4

\* the answer that makes the block ask the question, where it is a conditional one
Parent(e) ==
  CASE e = <<"food", "lunch_source">> -> [q |-> <<"food", "had_lunch">>, i |-> 2]
    [] e = <<"food", "dinner_source">> -> [q |-> <<"food", "had_dinner">>, i |-> 2]
    [] e = <<"water", "laundry_temperature">> -> [q |-> <<"water", "did_laundry">>, i |-> 2]
    [] e = <<"consumption", "items_new_or_used">> ->
         [q |-> <<"consumption", "purchased_items">>, i |-> 2]
    [] e = <<"consumption", "item_packaging">> ->
         [q |-> <<"consumption", "purchased_items">>, i |-> 2]
    [] e = <<"consumption", "delivery_option">> ->
         [q |-> <<"consumption", "ordered_online">>, i |-> 2]
    [] OTHER -> NoInput

\* an answer that an earlier version of the option lists offered
RetiredOption == "Carnivore-extreme"

\* the render that leaves the store of a session that went through the steps up to
\* the one asking e, giving the answer that makes it ask e
Carried(e) ==
  LET Visit[k \in 0..StepOf(e)] ==
        IF k = 0 THEN StartRender(EmptyDict, EmptyDict)
        ELSE Then(Visit[k - 1],
                  LAMBDA r : Block(k, r, IF k = StepOf(e) THEN Parent(e) ELSE NoInput))
  IN  Visit[StepOf(e)]

\* a session at the step of e whose stored answer to e is a retired option
InitStale ==
  /\ \E e \in EnumQuestions :
       \E r \in {Carried(e)} :
         /\ session_state =
              [k \in Keys |->
                 CASE k = "current_step" -> StepOf(e)
                   [] k = "user_responses" -> store_response(r.ur, e[1], e[2], RetiredOption)
                   [] k = "food_order_analysis" -> None
                   [] k = "final_result" -> None]
         /\ written = [p \in DOMAIN r.written |->
                         IF p = e THEN RetiredOption ELSE r.written[p]]
  /\ rerun_pending = FALSE
  /\ rendered = 0
  /\ asked = {}
  /\ shown = {}
  /\ button = "none"
  /\ wrote = {}
  /\ gemma_calls = 0
  /\ invoice_calls = 0
  /\ payload = EmptyDict
  /\ response = 0
  /\ cycle_calls = 0
  /\ uploaded_file = 0
  /\ failed = FALSE
  /\ defaulted = {}
  /\ edits = 0
  /\ user = "service"
  /\ call = NoCall
  /\ disk = <<>>
  /\ sessions = EmptyDict
  /\ computed_from = EmptyDict

SpecStale == InitStale /\ [][Next]_vars

(***************************************************************************)
(* What the next run finds in the session state, absent keys initialised.  *)
(***************************************************************************)
Session == InitSessionState(session_state)
UR == Session.user_responses
Cursor == Session.current_step
FoodOrderAnalysis == Session.food_order_analysis
FinalResult == Session.final_result

\* the value the store holds for a pair
Stored(ur, p) == ur[p[1]][p[2]]

\* the HTTP outcome i is a reply with a status other than 200
NonOK(i) == i # 0 /\ ~Outcomes[i].raised /\ Outcomes[i].status # 200

\* the text analyze_with_gemma returns for a failed request
IsFailureText(t) == Truthy(t) /\ t[1] = "Error "

(***************************************************************************)
(* C1.  Between two invalidations (Recalculate, Start Over) the full       *)
(* analysis service is called at most once, whatever re-renders,           *)
(* navigation and edits happen in between: the calls counted since the     *)
(* last invalidation never exceed one.                                     *)
(***************************************************************************)
C1_AtMostOneCallPerCycle == cycle_calls <= 1

(***************************************************************************)
(* C2.  When the step-6 call fails with a status other than 200, the run   *)
(* leaves a non-empty error text in final_result; while final_result holds *)
(* such a text a run other than Recalculate makes no call, and a           *)
(* Recalculate run makes exactly one.                                      *)
(***************************************************************************)
C2_FailureIsCachedUntilRecalculate ==
  [][/\ (gemma_calls' = 1 /\ NonOK(response') /\ button' # "reset")
          => IsFailureText(FinalResult')
     /\ (IsFailureText(FinalResult) /\ button' # "recalculate") => gemma_calls' = 0
     /\ (IsFailureText(FinalResult) /\ button' = "recalculate") => gemma_calls' = 1]_vars

\* step 6 was rendered again after a failed call, and the run made no call
C2_Witness ==
  /\ rendered = 6 /\ Cursor = 6 /\ button = "none"
  /\ IsFailureText(FinalResult)
  /\ gemma_calls = 0 /\ cycle_calls = 1

(***************************************************************************)
(* C3.  In every reachable state current_step is an integer in 1..6.       *)
(***************************************************************************)
C3_StepInRange == Cursor \in 1..6

\* the last step is on screen, with its buttons
C3_Witness == rendered = 6 /\ Cursor = 6 /\ ~rerun_pending

StepCategory(k) ==
  CASE k = 1 -> "transportation"
    [] k = 2 -> "diet"
    [] k = 3 -> "home"
    [] k = 4 -> "waste"

C5_RedisplayIsIdempotent ==
  [][(/\ button' \in {"none", "next", "prev"}
      /\ rendered' \in 1..4
      /\ StepCategory(rendered') \in DOMAIN UR)
       => /\ ~failed'
          /\ asked' \subseteq Pairs(UR)
          /\ \A p \in asked' : written'[p] = Stored(UR, p)
          /\ UR' = UR]_vars

\* step 2 was rendered again after step 3 had been visited, with an answer the user
\* changed from its stock default
C5_Witness ==
  /\ rendered = 2 /\ button = "none" /\ ~rerun_pending
  /\ "home" \in DOMAIN UR
  /\ Stored(UR, <<"food", "had_lunch">>) = TRUE
  /\ <<"food", "lunch_source">> \in asked

(***************************************************************************)
(* C6.  Pressing Recalculate leaves the answer store, current_step and     *)
(* food_order_analysis as they were.                                       *)
(***************************************************************************)
C6_RecalculateFrame ==
  [][button' = "recalculate" =>
       /\ UR' = UR
       /\ Cursor' = Cursor
       /\ FoodOrderAnalysis' = FoodOrderAnalysis]_vars

\* Recalculate was pressed with an invoice analysis cached, and made its call
C6_Witness ==
  /\ button = "recalculate" /\ gemma_calls = 1
  /\ Truthy(FoodOrderAnalysis)
  /\ UR # EmptyDict

(***************************************************************************)
(* C7.  A render of step 1 with selected mode m asks and writes fuel type  *)
(* iff m is Car or Motorcycle, the duration iff m is Bus or Train, and the *)
(* passenger count iff m is Car.                                           *)
(***************************************************************************)
C7_ConditionalTransportQuestions ==
  (rendered = 1 /\ ~failed) =>
    LET m == Stored(UR, <<"transportation", "primary_mode">>)
        fuel == <<"transportation", "fuel_type">>
        duration == <<"transportation", "duration_minutes">>
        passengers == <<"transportation", "passengers">>
    IN  /\ fuel \in asked <=> m \in {"Car", "Motorcycle"}
        /\ fuel \in wrote <=> m \in {"Car", "Motorcycle"}
        /\ duration \in asked <=> m \in {"Bus", "Train"}
        /\ duration \in wrote <=> m \in {"Bus", "Train"}
        /\ passengers \in asked <=> m = "Car"
        /\ passengers \in wrote <=> m = "Car"

\* step 1 rendered for Bicycle: none of the three is asked or written, though a fuel
\* type is still stored from the time the mode was Car
C7_Witness ==
  /\ rendered = 1 /\ ~failed
  /\ Stored(UR, <<"transportation", "primary_mode">>) = "Bicycle"
  /\ Has(UR, "transportation", "fuel_type")
  /\ (asked \cup wrote) \cap {<<"transportation", "fuel_type">>,
                              <<"transportation", "duration_minutes">>,
                              <<"transportation", "passengers">>} = {}

(***************************************************************************)
(* C8.  A render of step 5 offers the upload iff has_lunch_invoice or      *)
(* has_dinner_invoice is stored as true, shows the nothing-to-upload       *)
(* notice iff neither is, and so shows exactly one of the two.             *)
(***************************************************************************)
\* the flag is stored, and stored as true
Flag(q) == Has(UR, "food", q) /\ Stored(UR, <<"food", q>>) = TRUE

C8_UploadOfferedIffInvoice ==
  rendered = 5 =>
    /\ "upload" \in shown <=> (Flag("has_lunch_invoice") \/ Flag("has_dinner_invoice"))
    /\ "nothing_to_upload" \in shown
         <=> (~Flag("has_lunch_invoice") /\ ~Flag("has_dinner_invoice"))
    /\ "upload" \in shown <=> "nothing_to_upload" \notin shown

\* the lunch flag alone: the upload is offered and the notice is not shown
C8_Witness ==
  /\ rendered = 5
  /\ Flag("has_lunch_invoice") /\ ~Has(UR, "food", "has_dinner_invoice")
  /\ "upload" \in shown /\ "nothing_to_upload" \notin shown

(***************************************************************************)
(* C9.  When the stored value of a single-choice question of steps 1-4 is  *)
(* not among its options, the step renders without failing and selects the *)
(* fallback option.                                                        *)
(***************************************************************************)
\* the stored answer to e is not among the options, and the next run asks e
StaleAsked(e) ==
  /\ Has(UR, e[1], e[2])
  /\ Stored(UR, e) \notin Range(OptionsOf(e))
  /\ (e \in asked' \/ failed')

C10_PayloadIsAnswerStore ==
  (gemma_calls = 1 /\ button # "reset") =>
    /\ payload = UR
    /\ Pairs(payload) = DOMAIN written
    /\ \A p \in DOMAIN written : Stored(payload, p) = written[p]
    /\ FoodOrderAnalysis # None =>
         /\ Has(payload, "food", "invoice_analysis")
         /\ Stored(payload, <<"food", "invoice_analysis">>) = FoodOrderAnalysis

\* a call whose payload carries an invoice analysis and the answers of steps 1-4
C10_Witness ==
  /\ gemma_calls = 1 /\ button # "reset"
  /\ Has(payload, "food", "invoice_analysis")
  /\ Has(payload, "waste", "does_compost")

C16_NextAlwaysAdvances ==
  [][button' = "next" => (Cursor \in 1..5 /\ Cursor' = Cursor + 1)]_vars

\* step 6 on screen in a session in which no widget value was changed and no file
\* uploaded
C16_Witness ==
  /\ rendered = 6 /\ Cursor = 6 /\ button = "none"
  /\ user = "answers" /\ edits = 0
  /\ ~Has(UR, "food", "invoice_analysis")
  /\ Stored(UR, <<"transportation", "distance_km">>) = 0
  /\ Stored(UR, <<"food", "had_lunch">>) = FALSE

(***************************************************************************)
(* C18.  Every render of step 6 ends with final_result populated, whatever *)
(* the outcome of the call, so that a following re-render never finds the  *)
(* slot absent.                                                            *)
(***************************************************************************)
C18_ResultsLeaveResultPopulated ==
  (rendered = 6 /\ button # "reset") => FinalResult # None

(***************************************************************************)
(* C19.  Whenever step 5 offers the upload, the stored answers of step 2   *)
(* describe a meal with an invoice: had_lunch true, lunch_source           *)
(* Delivery/Takeout and has_lunch_invoice true, or the same for dinner.    *)
(***************************************************************************)
\* the three stored answers of a meal describe a delivery with an invoice
UnresolvedInvoice(ur, had, source, invoice) ==
  /\ get_response(ur, "food", had, FALSE) = TRUE
  /\ Has(ur, "food", source) /\ Stored(ur, <<"food", source>>) = "Delivery/Takeout"
  /\ get_response(ur, "food", invoice, FALSE) = TRUE

C19_UploadOnlyForUnresolvedInvoice ==
  (rendered = 5 /\ "upload" \in shown) =>
    \/ UnresolvedInvoice(UR, "had_lunch", "lunch_source", "has_lunch_invoice")
    \/ UnresolvedInvoice(UR, "had_dinner", "dinner_source", "has_dinner_invoice")

(***************************************************************************)
(* C20.  The payload of the full-analysis call never holds a dependent     *)
(* answer whose guard is false under the other answers of the payload.     *)
(***************************************************************************)
\* the guard under which the step blocks ask the dependent question p, read from the
\* answers of ur
GuardHolds(ur, p) ==
  LET mode == get_response(ur, "transportation", "primary_mode", "Car")
      meal_details(had, source, invoice) ==
        /\ get_response(ur, "food", had, FALSE) = TRUE
        /\ get_response(ur, "food", source, "Home-cooked") = "Delivery/Takeout"
             => get_response(ur, "food", invoice, FALSE) # TRUE
      meal_invoice(had, source) ==
        /\ get_response(ur, "food", had, FALSE) = TRUE
        /\ get_response(ur, "food", source, "Home-cooked") = "Delivery/Takeout"
      items == get_response(ur, "consumption", "purchased_items", {})
  IN  CASE p = <<"transportation", "fuel_type">> -> mode \in {"Car", "Motorcycle"}
        [] p = <<"transportation", "duration_minutes">> -> mode \in {"Bus", "Train"}
        [] p = <<"transportation", "passengers">> -> mode = "Car"
        [] p \in {<<"food", "breakfast_description">>, <<"food", "breakfast_dairy_level">>,
                  <<"food", "breakfast_meat_level">>} ->
             get_response(ur, "food", "had_breakfast", FALSE) = TRUE
        [] p = <<"food", "lunch_source">> -> get_response(ur, "food", "had_lunch", FALSE) = TRUE
        [] p = <<"food", "has_lunch_invoice">> -> meal_invoice("had_lunch", "lunch_source")
        [] p \in {<<"food", "lunch_description">>, <<"food", "lunch_meat_level">>} ->
             meal_details("had_lunch", "lunch_source", "has_lunch_invoice")
        [] p = <<"food", "dinner_source">> ->
             get_response(ur, "food", "had_dinner", FALSE) = TRUE
        [] p = <<"food", "has_dinner_invoice">> -> meal_invoice("had_dinner", "dinner_source")
        [] p \in {<<"food", "dinner_description">>, <<"food", "dinner_meat_level">>} ->
             meal_details("had_dinner", "dinner_source", "has_dinner_invoice")
        [] p = <<"energy", "electricity_provider">> ->
             "Grid electricity" \in get_response(ur, "energy", "electricity_sources", {})
        [] p \in {<<"water", "laundry_loads">>, <<"water", "laundry_temperature">>} ->
             get_response(ur, "water", "did_laundry", FALSE) = TRUE
        [] p \in {<<"consumption", "items_new_or_used">>,
                  <<"consumption", "item_packaging">>} ->
             "None" \notin items /\ items # {}
        [] p = <<"consumption", "delivery_option">> ->
             get_response(ur, "consumption", "ordered_online", FALSE) = TRUE
        [] OTHER -> TRUE

C20_PayloadHoldsNoStaleDependent ==
  gemma_calls = 1 => \A p \in Pairs(payload) : GuardHolds(payload, p)

(***************************************************************************)
(* C21.  The cached invoice analysis and the store agree in every state:   *)
(* food_order_analysis is absent exactly when food.invoice_analysis is     *)
(* absent from the Answer Store, and when present both hold the same text. *)
(***************************************************************************)
C21_CacheAndStoreAgree ==
  /\ FoodOrderAnalysis = None <=> ~Has(UR, "food", "invoice_analysis")
  /\ FoodOrderAnalysis # None =>
       Stored(UR, <<"food", "invoice_analysis">>) = FoodOrderAnalysis

(***************************************************************************)
(* C22.  When Analyze Invoice is pressed and the image cannot be encoded,  *)
(* the invoice service is not called, the failure is shown, current_step,  *)
(* the Answer Store and both cached results stay as they were, and the     *)
(* Previous and Next buttons of step 5 are drawn.                          *)
(***************************************************************************)
C22_EncodeFailureLeavesSession ==
  [][(/\ button' = "analyze" /\ uploaded_file' # 0
      /\ encode_image(Files[uploaded_file'].bytes) = <<>>) =>
       /\ invoice_calls' = 0
       /\ "encode_error" \in shown'
       /\ session_state' = Session
       /\ rendered' = 5 /\ ~rerun_pending'
       /\ {"prev", "next"} \subseteq Buttons(rendered')]_vars

\* the encoding failed in a session that holds an earlier analysis
C22_Witness ==
  /\ button = "analyze" /\ uploaded_file # 0
  /\ encode_image(Files[uploaded_file].bytes) = <<>>
  /\ "encode_error" \in shown
  /\ Truthy(FoodOrderAnalysis)

(***************************************************************************)
(* C24.  Between resets the pairs of the Answer Store only grow: whatever  *)
(* a run does except Start Over, every pair present before it is present   *)
(* after it; Start Over leaves no pair.                                    *)
(***************************************************************************)
C24_PairsOnlyGrow ==
  [][IF button' = "reset"
       THEN Pairs(UR') = {}
       ELSE Pairs(UR) \subseteq Pairs(UR')]_vars

\* the answer to a dependent question is still stored after the answer it depends
\* on was changed so that the question is no longer asked
C24_Witness ==
  /\ button = "edit" /\ rendered = 1
  /\ Has(UR, "transportation", "fuel_type")
  /\ ~AsksFuelType(Stored(UR, <<"transportation", "primary_mode">>))
  /\ <<"transportation", "fuel_type">> \notin asked

(***************************************************************************)
(* C25.  A render of step 2 writes a meal's detail answers only if the     *)
(* meal was eaten; for lunch and dinner it writes the invoice flag iff the *)
(* meal was eaten and its source is Delivery/Takeout, and the description  *)
(* and meat level iff the meal was eaten and not (source Delivery/Takeout  *)
(* with the invoice flag true).                                            *)
(***************************************************************************)
MealQuestions ==
  {[had |-> "had_breakfast", source |-> "", invoice |-> "",
    details |-> {"breakfast_description", "breakfast_dairy_level",
                 "breakfast_meat_level"}],
   [had |-> "had_lunch", source |-> "lunch_source", invoice |-> "has_lunch_invoice",
    details |-> {"lunch_description", "lunch_meat_level"}],
   [had |-> "had_dinner", source |-> "dinner_source", invoice |-> "has_dinner_invoice",
    details |-> {"dinner_description", "dinner_meat_level"}]}

C25_ConditionalMealQuestions ==
  (rendered = 2 /\ ~failed) =>
    \A m \in MealQuestions :
      LET eaten == Stored(UR, <<"food", m.had>>) = TRUE
          Wrote(q) == <<"food", q>> \in wrote
      IN  /\ \A q \in m.details \cup ({m.source, m.invoice} \ {""}) : Wrote(q) => eaten
          /\ m.source # "" =>
               LET delivery == eaten /\ Stored(UR, <<"food", m.source>>) = "Delivery/Takeout"
                   deferred == delivery /\ Stored(UR, <<"food", m.invoice>>) = TRUE
               IN  /\ Wrote(m.source) <=> eaten
                   /\ Wrote(m.invoice) <=> delivery
                   /\ \A q \in m.details : Wrote(q) <=> (eaten /\ ~deferred)

\* lunch was delivered and its invoice is flagged: the flag is written, description and
\* meat level are not, though both are stored from an earlier render
C25_Witness ==
  /\ rendered = 2 /\ ~failed
  /\ <<"food", "has_lunch_invoice">> \in wrote
  /\ Stored(UR, <<"food", "has_lunch_invoice">>) = TRUE
  /\ wrote \cap {<<"food", "lunch_description">>, <<"food", "lunch_meat_level">>} = {}
  /\ Has(UR, "food", "lunch_description")
  /\ <<"food", "breakfast_description">> \notin wrote

(***************************************************************************)
(* C26.  A render of step 4 asks and writes the new/used and packaging     *)
(* questions iff the purchased-items selection is non-empty and does not   *)
(* contain "None", and the delivery-speed question iff the online-order    *)
(* flag is true.                                                           *)
(***************************************************************************)
C26_ConditionalGoodsQuestions ==
  (rendered = 4 /\ ~failed) =>
    LET purchased_items == Stored(UR, <<"consumption", "purchased_items">>)
        details == purchased_items # {} /\ "None" \notin purchased_items
        online == Stored(UR, <<"consumption", "ordered_online">>) = TRUE
        Drawn(q) == <<"consumption", q>> \in asked
        Wrote(q) == <<"consumption", q>> \in wrote
    IN  /\ Drawn("items_new_or_used") <=> details
        /\ Wrote("items_new_or_used") <=> details
        /\ Drawn("item_packaging") <=> details
        /\ Wrote("item_packaging") <=> details
        /\ Drawn("delivery_option") <=> online
        /\ Wrote("delivery_option") <=> online

\* "None" selected together with an item: the two questions are not asked, though
\* their answers are stored from the render where only the item was selected
C26_Witness ==
  /\ rendered = 4 /\ ~failed
  /\ Stored(UR, <<"consumption", "purchased_items">>) = {"Clothing", "None"}
  /\ Has(UR, "consumption", "item_packaging")
  /\ (asked \cup wrote) \cap {<<"consumption", "items_new_or_used">>,
                              <<"consumption", "item_packaging">>} = {}

(***************************************************************************)
(* C27.  The steps are visited in the linear order 1..6: a run displays    *)
(* the current step and changes current_step by +1 (Next), by -1           *)
(* (Previous), not at all, or back to 1 (Start Over), so step 6 is entered *)
(* from step 5 only; step 5 displayed with neither invoice flag set shows  *)
(* the nothing-to-upload notice and calls no invoice analysis.             *)
(***************************************************************************)
C27_LinearOrder ==
  [][/\ rendered' = Cursor
     /\ CASE button' = "reset" -> Cursor' = 1
          [] button' = "next" -> Cursor' = Cursor + 1
          [] button' = "prev" -> Cursor' = Cursor - 1
          [] OTHER -> Cursor' = Cursor
     /\ (Cursor' = 6 /\ Cursor # 6) => Cursor = 5
     /\ (rendered' = 5 /\ ~Flag("has_lunch_invoice")' /\ ~Flag("has_dinner_invoice")') =>
          /\ "nothing_to_upload" \in shown'
          /\ "upload" \notin shown'
          /\ invoice_calls' = 0]_vars

\* step 6 is entered by Next from step 5, which was displayed with no invoice flagged
C27_Witness ==
  /\ rendered = 5 /\ button = "next" /\ Cursor = 6
  /\ ~Flag("has_lunch_invoice") /\ ~Flag("has_dinner_invoice")
  /\ shown = {"nothing_to_upload"}
  /\ invoice_calls = 0
  /\ edits > 0

(***************************************************************************)
(* C28.  As claimed: whenever step 6 displays a populated final_result,    *)
(* the result was computed from answers equal to the stored ones.          *)
(***************************************************************************)
C28_ResultFromCurrentAnswers ==
  (rendered = 6 /\ FinalResult # None) => computed_from = UR

(***************************************************************************)
(* C28, amended.  A populated final_result displayed by step 6 was         *)
(* computed from the Answer Store as it stood at the time of the call: the *)
(* run that makes the call displays a result of the current answers, and   *)
(* Recalculate always makes the call; a result that differs from the       *)
(* stored answers is displayed only on coming back to step 6 without       *)
(* recalculating, the store having grown or changed in between.            *)
(***************************************************************************)
C28_ResultFromAnswersAtComputation ==
  (rendered = 6 /\ FinalResult # None) =>
    /\ gemma_calls = 1 => computed_from = UR
    /\ button = "recalculate" => gemma_calls = 1
    /\ computed_from # UR =>
         /\ gemma_calls = 0
         /\ button \in {"none", "prev"}
         /\ Pairs(computed_from) \subseteq Pairs(UR)

\* back at step 6 after an edit: the result of the earlier answers is displayed
C28_Witness ==
  /\ rendered = 6 /\ Cursor = 6 /\ button = "none"
  /\ FinalResult # None
  /\ gemma_calls = 0
  /\ computed_from # UR
  /\ Pairs(computed_from) = Pairs(UR)

(***************************************************************************)
(* C29.  In every state reached through the wizard each stored answer to a *)
(* single-choice question is one of the question's options and each stored *)
(* multi-select answer is a subset of its options, so no render falls back *)
(* to a default index or fails on a multi-select default.                  *)
(***************************************************************************)
MultiQuestions ==
  {<<"energy", "electricity_sources">>, <<"consumption", "purchased_items">>}

MultiOptionsOf(e) ==
  IF e = <<"energy", "electricity_sources">> THEN electricity_options
  ELSE purchased_options

C29_StoredAnswersAreOptions ==
  /\ \A e \in EnumQuestions :
       Has(UR, e[1], e[2]) => Stored(UR, e) \in Range(OptionsOf(e))
  /\ \A e \in MultiQuestions :
       Has(UR, e[1], e[2]) => Stored(UR, e) \subseteq MultiOptionsOf(e)
  /\ defaulted = {}
  /\ ~failed

\* step 4 rendered with a purchase selected and the packaging answer changed: the
\* answers of all four steps are stored
C29_Witness ==
  /\ rendered = 4 /\ button = "edit"
  /\ Stored(UR, <<"consumption", "purchased_items">>) = {"Clothing"}
  /\ Stored(UR, <<"consumption", "item_packaging">>) = "Excessive packaging"
  /\ Has(UR, "transportation", "fuel_type")
  /\ Has(UR, "energy", "electricity_sources")
  /\ defaulted = {}

(***************************************************************************)
(* C30.  A run that displays step K changes only answers of the categories *)
(* of step K (1: transportation; 2: food, diet; 3: home, energy, water;    *)
(* 4: consumption, waste; 5: food.invoice_analysis alone; 6: none): every  *)
(* other stored answer is as before, and so is current_step unless Next,   *)
(* Previous or Start Over was pressed.                                     *)
(***************************************************************************)
StepCategories(k) ==
  CASE k = 1 -> {"transportation"}
    [] k = 2 -> {"food", "diet"}
    [] k = 3 -> {"home", "energy", "water"}
    [] k = 4 -> {"consumption", "waste"}
    [] OTHER -> {}

\* the pairs a run displaying step k may add or change
OwnPairs(k, ur) ==
  IF k = 5 THEN {<<"food", "invoice_analysis">>}
  ELSE {p \in Pairs(ur) : p[1] \in StepCategories(k)}

C30_RenderFrame ==
  [][button' # "reset" =>
       /\ \A p \in (Pairs(UR) \cup Pairs(UR')) \ OwnPairs(rendered', UR') :
            /\ p \in Pairs(UR) /\ p \in Pairs(UR')
            /\ Stored(UR', p) = Stored(UR, p)
       /\ (DOMAIN UR' \ DOMAIN UR) \subseteq StepCategories(rendered')
       /\ button' \notin {"next", "prev"} => Cursor' = Cursor]_vars

\* step 5 has stored the invoice analysis; the answers of steps 1-4 are all there
C30_Witness ==
  /\ rendered = 5 /\ button = "analyze" /\ invoice_calls = 1
  /\ Has(UR, "food", "invoice_analysis")
  /\ {"transportation", "food", "diet", "home", "energy", "water", "consumption",
      "waste"} = DOMAIN UR
  /\ Stored(UR, <<"transportation", "distance_km">>) = 0
  /\ FinalResult # None

(***************************************************************************)
(* The helper functions called directly, from any session state and with   *)
(* any reply of the provider.                                              *)
(***************************************************************************)
\* the last step of the wizard
LastStep == 6

\* what the `choices` field of a JSON reply may look like
ChoicesKinds ==
  {"absent", "empty", "content", "null_content", "text", "content_and_text",
   "message_only", "bare"}

\* the value of the `choices` field, per kind
ChoicesOf(kind) ==
  CASE kind = "empty" -> <<>>
    [] kind = "content" -> << [message |-> [content |-> <<"message content">>]] >>
    [] kind = "null_content" -> << [message |-> [content |-> None]] >>
    [] kind = "text" -> << [text |-> <<"choice text">>] >>
    [] kind = "content_and_text" ->
         << [message |-> [content |-> <<"message content">>],
             text |-> <<"choice text">>] >>
    [] kind = "message_only" -> << [message |-> [role |-> <<"assistant">>]] >>
    [] kind = "bare" -> << [index |-> 0] >>

\* the top-level fields, besides `choices`, that the functions look for
TopLevelFields == {"response", "result", "output", "text"}

\* a parsed JSON body: `choices` of the given kind and the given top-level fields
Body(kind, fields) ==
  [k \in fields \cup (IF kind = "absent" THEN {} ELSE {"choices"}) |->
     IF k = "choices" THEN ChoicesOf(kind) ELSE <<"top-level ", k>>]

\* what requests.post may do: raise, answer with a failure status, answer 200 with a
\* body that is not JSON, or answer 200 with a JSON body
Replies ==
  {[raised |-> TRUE, error |-> <<"Read timed out. (read timeout=90)">>]}
  \cup {[raised |-> FALSE, status |-> st, is_json |-> FALSE, json |-> EmptyDict,
         text |-> <<"upstream failure page">>, dumped |-> <<>>] : st \in {429, 500}}
  \cup {[raised |-> FALSE, status |-> 200, is_json |-> FALSE, json |-> EmptyDict,
         text |-> <<"<html>Bad gateway</html>">>, dumped |-> <<>>]}
  \cup {[raised |-> FALSE, status |-> 200, is_json |-> TRUE, json |-> Body(kind, fields),
         text |-> <<"body as received">>, dumped |-> <<"json.dumps(response_json)">>] :
          kind \in ChoicesKinds, fields \in SUBSET TopLevelFields}

\* the values and the keys used in the direct calls of store_response
CallCategories == {"transportation", "water"}
CallQuestions(c) ==
  IF c = "transportation" THEN {"distance_km", "passengers"} ELSE {"shower_minutes"}
CallValues == {0, 5}
\* get_response's default where the call records that the pair held nothing
Missing == 0 - 1

CallPrevStep ==
  /\ session_state' = [session_state EXCEPT !.current_step = prev_step(@)]
  /\ call' = [fn |-> "prev_step", at |-> session_state.current_step]
  /\ UNCHANGED <<rerun_pending, rendered, asked, shown, button, wrote, gemma_calls,
                 invoice_calls, payload, response, cycle_calls, written, uploaded_file,
                 failed, defaulted, edits, user, disk, sessions,
                     computed_from>>

\* called from any step; the wizard itself draws no Next button at the last step
CallNextStep ==
  /\ session_state.current_step < MaxStep
  /\ session_state' = [session_state EXCEPT !.current_step = next_step(@)]
  /\ call' = [fn |-> "next_step", at |-> session_state.current_step]
  /\ UNCHANGED <<rerun_pending, rendered, asked, shown, button, wrote, gemma_calls,
                 invoice_calls, payload, response, cycle_calls, written, uploaded_file,
                 failed, defaulted, edits, user, disk, sessions,
                     computed_from>>

CallStoreResponse ==
  \E c \in CallCategories :
    \E q \in CallQuestions(c), v \in CallValues :
      /\ session_state' =
           [session_state EXCEPT !.user_responses = store_response(@, c, q, v)]
      /\ call' = [fn |-> "store_response", category |-> c, question |-> q, value |-> v,
                  before |-> get_response(session_state.user_responses, c, q, Missing)]
      /\ UNCHANGED <<rerun_pending, rendered, asked, shown, button, wrote, gemma_calls,
                     invoice_calls, payload, response, cycle_calls, written,
                     uploaded_file, failed, defaulted, edits, user, disk, sessions,
                     computed_from>>

CallAnalyzeWithGemma ==
  \E reply \in Replies :
    /\ call' = [fn |-> "analyze_with_gemma", reply |-> reply,
                value |-> analyze_with_gemma(session_state.user_responses, reply)]
    /\ UNCHANGED <<session_state, rerun_pending, rendered, asked, shown, button, wrote,
                   gemma_calls, invoice_calls, payload, response, cycle_calls, written,
                   uploaded_file, failed, defaulted, edits, user, disk, sessions,
                     computed_from>>

CallAnalyzeFoodInvoice ==
  \E reply \in Replies :
    /\ call' = [fn |-> "analyze_food_invoice", reply |-> reply,
                value |-> analyze_food_invoice(encode_image(Files[1].bytes), reply)]
    /\ UNCHANGED <<session_state, rerun_pending, rendered, asked, shown, button, wrote,
                   gemma_calls, invoice_calls, payload, response, cycle_calls, written,
                   uploaded_file, failed, defaulted, edits, user, disk, sessions,
                     computed_from>>

\* an initialised session at any step, nothing stored yet
InitCalls ==
  /\ \E k \in 1..LastStep :
       session_state = [InitSessionState(EmptyDict) EXCEPT !.current_step = k]
  /\ rerun_pending = FALSE
  /\ rendered = 0
  /\ asked = {}
  /\ shown = {}
  /\ button = "none"
  /\ wrote = {}
  /\ gemma_calls = 0
  /\ invoice_calls = 0
  /\ payload = EmptyDict
  /\ response = 0
  /\ cycle_calls = 0
  /\ written = EmptyDict
  /\ uploaded_file = 0
  /\ failed = FALSE
  /\ defaulted = {}
  /\ edits = 0
  /\ user = "service"
  /\ call = NoCall
  /\ disk = <<>>
  /\ sessions = EmptyDict
  /\ computed_from = EmptyDict

NextCalls ==
  \/ CallPrevStep
  \/ CallNextStep
  \/ CallStoreResponse
  \/ CallAnalyzeWithGemma
  \/ CallAnalyzeFoodInvoice

SpecCalls == InitCalls /\ [][NextCalls]_vars

\* the last direct call was a call of one of the two analysis functions
Analysed == call.fn \in {"analyze_with_gemma", "analyze_food_invoice"}

(***************************************************************************)
(* C13.  For every outcome of the HTTP call both analysis functions return *)
(* a display string: a text, which for a transport failure describes the   *)
(* error and for a status other than 200 holds the status code.            *)
(***************************************************************************)
C13_AlwaysADisplayString ==
  Analysed =>
    /\ call.value # None
    /\ call.reply.raised =>
         call.value = <<"An error occurred: ">> \o call.reply.error
    /\ (~call.reply.raised /\ call.reply.status # 200) =>
         \E i \in 1..Len(call.value) : call.value[i] = StatusText(call.reply.status)

(***************************************************************************)
(* C14.  For a 200 reply whose JSON body matches a known envelope shape    *)
(* the analysis function returns the content found in a matching shape;    *)
(* it returns the serialized reply only when no known shape matches, and   *)
(* the body text only when the body is not JSON.                           *)
(***************************************************************************)
\* the contents found in the known shapes that the body matches
Found(body) ==
  LET has_choice == "choices" \in DOMAIN body /\ Len(body.choices) > 0
  IN  (IF has_choice /\ "message" \in DOMAIN body.choices[1]
          /\ "content" \in DOMAIN body.choices[1].message
         THEN {body.choices[1].message.content} ELSE {})
      \cup (IF has_choice /\ "text" \in DOMAIN body.choices[1]
              THEN {body.choices[1].text} ELSE {})
      \cup {body[k] : k \in DOMAIN body \cap TopLevelFields}

C14_ContentOfAMatchingShape ==
  (Analysed /\ ~call.reply.raised /\ call.reply.status = 200) =>
    IF call.reply.is_json
      THEN IF Found(call.reply.json) # {}
             THEN call.value \in Found(call.reply.json)
             ELSE call.value = call.reply.dumped
      ELSE call.value = call.reply.text

(***************************************************************************)
(* C15.  prev_step never takes current_step below 1: it decrements it by   *)
(* exactly 1 when it is above 1 and leaves the whole session state as it   *)
(* is when it is 1.                                                        *)
(***************************************************************************)
C15_PrevStepStopsAtOne ==
  [][call'.fn = "prev_step" =>
       /\ Cursor' >= 1
       /\ Cursor' = IF Cursor > 1 THEN Cursor - 1 ELSE Cursor
       /\ UR' = UR
       /\ FoodOrderAnalysis' = FoodOrderAnalysis
       /\ FinalResult' = FinalResult
       /\ Cursor = 1 => session_state' = session_state]_vars

\* prev_step was called at step 1, in a session that holds answers
C15_Witness ==
  /\ call.fn = "prev_step" /\ call.at = 1
  /\ Cursor = 1
  /\ UR # EmptyDict

(***************************************************************************)
(* C17.  After store_response(c, q, v), get_response(c, q, d) returns v    *)
(* for every default d; the pair holds that one value, the category exists *)
(* and every other pair and category is as before.                         *)
(***************************************************************************)
C17_StoreThenGet ==
  [][call'.fn = "store_response" =>
       LET c == call'.category
           q == call'.question
       IN  /\ \A d \in CallValues \cup {Missing} : get_response(UR', c, q, d) = call'.value
           /\ DOMAIN UR' = DOMAIN UR \cup {c}
           /\ Pairs(UR') = Pairs(UR) \cup {<<c, q>>}
           /\ \A p \in Pairs(UR) \ {<<c, q>>} : Stored(UR', p) = Stored(UR, p)]_vars

\* a stored value was overwritten by another one, a second question of the category
\* and another category being in the store
C17_Witness ==
  /\ call.fn = "store_response"
  /\ call.before # Missing /\ call.before # call.value
  /\ Stored(UR, <<call.category, call.question>>) = call.value
  /\ Cardinality(Pairs(UR)) = 3

(***************************************************************************)
(* C23.  As claimed: next_step called at the last step does nothing, so    *)
(* current_step stays 6 and never becomes 7.                               *)
(***************************************************************************)
C23_NextStepStopsAtLast ==
  [][(call'.fn = "next_step" /\ Cursor = LastStep) => Cursor' = LastStep]_vars

(***************************************************************************)
(* C23, amended.  next_step adds exactly 1 to current_step at every step,  *)
(* the last one included, and changes nothing else of the session state.   *)
(***************************************************************************)
C23_NextStepAlwaysIncrements ==
  [][call'.fn = "next_step" =>
       /\ Cursor' = Cursor + 1
       /\ UR' = UR
       /\ FoodOrderAnalysis' = FoodOrderAnalysis
       /\ FinalResult' = FinalResult]_vars

\* next_step was called at the last step
C23_Witness ==
  /\ call.fn = "next_step" /\ call.at = LastStep
  /\ Cursor = LastStep + 1

(***************************************************************************)
(* Two sessions in the step-5 block at the same time.  The server runs the *)
(* script of each session in a thread of its own, so the statements of two *)
(* runs interleave; both runs save the upload under the one name           *)
(* "uploaded_invoice.png" and read it back from there.                     *)
(***************************************************************************)
SessionIds == {"A", "B"}

\* the invoice image each user has: its bytes
InvoiceOf(s) == IF s = "A" THEN <<137, 80, 78>> ELSE <<255, 216, 255>>

\* nothing has been sent for analysis
NotSent == None

\* the sessions' runs leave the variables of the single-session specifications alone
OtherSessionsOnly ==
  UNCHANGED <<session_state, rerun_pending, rendered, asked, shown, button, wrote,
              gemma_calls, invoice_calls, payload, response, cycle_calls, written,
              uploaded_file, failed, defaulted, edits, user, call, computed_from>>

\* the uploader of s receives the user's image: a run of the script starts
SessionUpload(s) ==
  /\ sessions[s].pc = "idle" /\ ~sessions[s].uploaded
  /\ sessions' = [sessions EXCEPT ![s].uploaded = TRUE, ![s].pressed = FALSE,
                                  ![s].pc = "save"]
  /\ UNCHANGED disk
  /\ OtherSessionsOnly

\* Analyze Invoice is pressed in s: a run of the script starts
SessionPressAnalyze(s) ==
  /\ sessions[s].pc = "idle" /\ sessions[s].uploaded
  /\ sessions' = [sessions EXCEPT ![s].pressed = TRUE, ![s].pc = "save"]
  /\ UNCHANGED disk
  /\ OtherSessionsOnly

\* `with open("uploaded_invoice.png", "wb") as f: f.write(uploaded_file.getbuffer())`
SessionSave(s) ==
  /\ sessions[s].pc = "save"
  /\ disk' = InvoiceOf(s)
  /\ sessions' = [sessions EXCEPT ![s].pc = IF sessions[s].pressed THEN "encode"
                                            ELSE "idle"]
  /\ OtherSessionsOnly

\* `base64_image = encode_image("uploaded_invoice.png")`, passed to
\* analyze_food_invoice when it is not empty
SessionEncode(s) ==
  /\ sessions[s].pc = "encode"
  /\ sessions' = [sessions EXCEPT ![s].sent = encode_image(disk), ![s].pressed = FALSE,
                                  ![s].pc = "idle"]
  /\ UNCHANGED disk
  /\ OtherSessionsOnly

\* the user of s removes the image from the uploader
SessionRemove(s) ==
  /\ sessions[s].pc = "idle" /\ sessions[s].uploaded
  /\ sessions' = [sessions EXCEPT ![s].uploaded = FALSE, ![s].sent = NotSent]
  /\ UNCHANGED disk
  /\ OtherSessionsOnly

InitSessions ==
  /\ session_state = EmptyDict
  /\ rerun_pending = FALSE
  /\ rendered = 0
  /\ asked = {}
  /\ shown = {}
  /\ button = "none"
  /\ wrote = {}
  /\ gemma_calls = 0
  /\ invoice_calls = 0
  /\ payload = EmptyDict
  /\ response = 0
  /\ cycle_calls = 0
  /\ written = EmptyDict
  /\ uploaded_file = 0
  /\ failed = FALSE
  /\ defaulted = {}
  /\ edits = 0
  /\ user = "service"
  /\ call = NoCall
  /\ disk = <<>>
  /\ sessions = [s \in SessionIds |->
                   [pc |-> "idle", uploaded |-> FALSE, pressed |-> FALSE,
                    sent |-> NotSent]]
  /\ computed_from = EmptyDict

NextSessions ==
  \E s \in SessionIds :
    \/ SessionUpload(s)
    \/ SessionPressAnalyze(s)
    \/ SessionSave(s)
    \/ SessionEncode(s)
    \/ SessionRemove(s)

SpecSessions == InitSessions /\ [][NextSessions]_vars

(***************************************************************************)
(* C12.  Whatever the interleaving of two sessions, what a session holds   *)
(* depends on its own actions only: the image encoded and sent for a       *)
(* session's invoice analysis is the image that session uploaded.          *)
(***************************************************************************)
C12_SessionSendsItsOwnImage ==
  \A s \in SessionIds :
    sessions[s].sent # NotSent => sessions[s].sent = encode_image(InvoiceOf(s))

====
